---- MODULE Spec2Model ----
(***************************************************************************)
(* A model of the two scripts of the repository:                           *)
(*   scrape.py         main / scrape_to_markdown(url, output_file)         *)
(*   scrape_reddit.py  scrape_reddit_internship()                          *)
(* One behaviour is one process run of one of the scripts.  The crawler    *)
(* (AsyncWebCrawler), the LLM, the environment and the file system are the *)
(* surroundings: what they answer is chosen nondeterministically.          *)
(*                                                                         *)
(* Text is a sequence of one-character strings; Python's None is the       *)
(* value None below, which is no text.  The content returned by the LLM    *)
(* and the content of a JSON file are sequences of lexical JSON tokens.    *)
(***************************************************************************)
EXTENDS Integers, Sequences, FiniteSets, TLC

(* ------------------------------ bounds ------------------------------- *)

\* Largest number of dot-separated labels in a host name.
MaxLabels == 3

\* Largest number of elements in a JSON array returned by the LLM.
MaxPosts == 2

(* ------------------------------- text -------------------------------- *)

\* Python's None (distinct from every text: its element is not one character).
None == <<"None">>

\* Faulty variant of Falsy: an `is None` test, which lets "" through.
IsNone(v) == v = None

\* Python truthiness of an Optional[str]: None and "" are falsy.
Falsy(v) == v = None \/ v = <<>>

\* s[i:] , 1-based: the suffix of s starting at position i.
From(s, i) == IF i > Len(s) THEN <<>> ELSE SubSeq(s, i, Len(s))

\* str.find: the first position of character c in s, 0 when absent.
Find(s, c) ==
    IF \E i \in 1..Len(s) : s[i] = c
    THEN CHOOSE i \in 1..Len(s) : s[i] = c /\ \A j \in 1..(i - 1) : s[j] # c
    ELSE 0

\* Faulty variant of replace: only the first occurrence is replaced.
replace_first(s, old, new) ==
    [i \in 1..Len(s) |-> IF i = Find(s, old) THEN new ELSE s[i]]

\* str.replace(old, new) for one-character old and new: every occurrence.
replace(s, old, new) == [i \in 1..Len(s) |-> IF s[i] = old THEN new ELSE s[i]]

(* ------------------------------ urlparse ----------------------------- *)

Letters == {"h", "a", "b", "c", "d", "e", "p", "q"}
Digits == {"8"}
SchemeChars == Letters \cup Digits \cup {"+", "-", "."}

\* urlsplit's scheme step: url[:i] is a scheme when i = find(":") > 0, the
\* first character is a letter and all of url[:i] are scheme characters; the
\* scheme is then cut off together with the colon.
AfterScheme(url) ==
    LET i == Find(url, ":")
    IN  IF /\ i > 1
           /\ url[1] \in Letters
           /\ \A j \in 1..(i - 1) : url[j] \in SchemeChars
        THEN From(url, i + 1)
        ELSE url

\* urlparse(url).netloc: when what follows the scheme starts with "//", the
\* text after it up to the first of "/", "?", "#"; the empty text otherwise.
netloc(url) ==
    LET rest == AfterScheme(url)
    IN  IF Len(rest) >= 2 /\ rest[1] = "/" /\ rest[2] = "/"
        THEN LET r == From(rest, 3)
                 stops == {i \in 1..Len(r) : r[i] \in {"/", "?", "#"}}
                 delim == IF stops = {} THEN Len(r) + 1
                          ELSE CHOOSE i \in stops : \A j \in stops : i <= j
             IN  SubSeq(r, 1, delim - 1)
        ELSE <<>>

\* f"{domain}.md" with domain = urlparse(url).netloc.replace(".", "_")
DefaultFilename(url) == replace(netloc(url), ".", "_") \o <<".", "m", "d">>

(* ------------------------------- JSON -------------------------------- *)

\* A JSON value is [t |-> type, s |-> the literal of a scalar, xs |-> the
\* elements of an array, ms |-> the [key, val] members of an object, in
\* insertion order (a Python dict)]; the fields a type does not use are empty.
JNull == [t |-> "null", s |-> "", xs |-> <<>>, ms |-> <<>>]
JBool(b) == [t |-> "bool", s |-> b, xs |-> <<>>, ms |-> <<>>]
JNum(n) == [t |-> "num", s |-> n, xs |-> <<>>, ms |-> <<>>]
JStr(w) == [t |-> "str", s |-> w, xs |-> <<>>, ms |-> <<>>]
JList(xs) == [t |-> "list", s |-> "", xs |-> xs, ms |-> <<>>]
JDict(ms) == [t |-> "dict", s |-> "", xs |-> <<>>, ms |-> ms]
Member(k, x) == [key |-> k, val |-> x]

\* Lexical tokens of a JSON text.
Punct(c) == [k |-> "punct", s |-> c]
Lit(w) == [k |-> "lit", s |-> w]
NumTok(n) == [k |-> "num", s |-> n]
StrTok(w) == [k |-> "str", s |-> w]
\* Text that is no JSON token at all (prose, a markdown fence, ...).
BadTok == [k |-> "bad", s |-> "?"]

\* dict[key] = val: the last value of a repeated key wins, in place.
DictSet(ms, key, val) ==
    IF \E i \in 1..Len(ms) : ms[i].key = key
    THEN [i \in 1..Len(ms) |-> IF ms[i].key = key THEN Member(key, val) ELSE ms[i]]
    ELSE Append(ms, Member(key, val))

ParseFail == [ok |-> FALSE, val |-> JNull, rest |-> <<>>]
ParseOk(x, rest) == [ok |-> TRUE, val |-> x, rest |-> rest]

RECURSIVE parse_value(_), parse_elements(_, _), parse_members(_, _)

\* One value at the head of toks, and the tokens left after it.
parse_value(toks) ==
    IF toks = <<>> THEN ParseFail
    ELSE LET h == toks[1]
             r == Tail(toks)
         IN  CASE h.k = "lit" /\ h.s = "null" -> ParseOk(JNull, r)
               [] h.k = "lit" /\ h.s \in {"true", "false"} -> ParseOk(JBool(h.s), r)
               [] h.k = "num" -> ParseOk(JNum(h.s), r)
               [] h.k = "str" -> ParseOk(JStr(h.s), r)
               [] h.k = "punct" /\ h.s = "[" ->
                    IF r # <<>> /\ r[1] = Punct("]")
                    THEN ParseOk(JList(<<>>), Tail(r))
                    ELSE parse_elements(r, <<>>)
               [] h.k = "punct" /\ h.s = "{" ->
                    IF r # <<>> /\ r[1] = Punct("}")
                    THEN ParseOk(JDict(<<>>), Tail(r))
                    ELSE parse_members(r, <<>>)
               [] OTHER -> ParseFail

\* value ("," value)* "]"
parse_elements(toks, acc) ==
    LET e == parse_value(toks)
    IN  IF ~e.ok \/ e.rest = <<>> THEN ParseFail
        ELSE IF e.rest[1] = Punct("]")
             THEN ParseOk(JList(Append(acc, e.val)), Tail(e.rest))
        ELSE IF e.rest[1] = Punct(",")
             THEN parse_elements(Tail(e.rest), Append(acc, e.val))
        ELSE ParseFail

\* string ":" value ("," string ":" value)* "}"
parse_members(toks, acc) ==
    IF Len(toks) < 2 \/ toks[1].k # "str" \/ toks[2] # Punct(":") THEN ParseFail
    ELSE LET e == parse_value(Tail(Tail(toks)))
         IN  IF ~e.ok \/ e.rest = <<>> THEN ParseFail
             ELSE IF e.rest[1] = Punct("}")
                  THEN ParseOk(JDict(DictSet(acc, toks[1].s, e.val)), Tail(e.rest))
             ELSE IF e.rest[1] = Punct(",")
                  THEN parse_members(Tail(e.rest), DictSet(acc, toks[1].s, e.val))
             ELSE ParseFail

\* json.loads(text): the value of the whole text; ok = FALSE stands for
\* json.JSONDecodeError (no value, or extra data after the value).
json_loads(toks) ==
    LET r == parse_value(toks)
    IN  IF r.ok /\ r.rest = <<>> THEN r ELSE ParseFail

RECURSIVE json_dump(_), dump_elements(_), dump_members(_)

\* json.dump(value, f): the tokens written (indentation is white space).
json_dump(x) ==
    CASE x.t = "null" -> <<Lit("null")>>
      [] x.t = "bool" -> <<Lit(x.s)>>
      [] x.t = "num" -> <<NumTok(x.s)>>
      [] x.t = "str" -> <<StrTok(x.s)>>
      [] x.t = "list" -> <<Punct("[")>> \o dump_elements(x.xs) \o <<Punct("]")>>
      [] x.t = "dict" -> <<Punct("{")>> \o dump_members(x.ms) \o <<Punct("}")>>

dump_elements(xs) ==
    IF xs = <<>> THEN <<>>
    ELSE IF Len(xs) = 1 THEN json_dump(xs[1])
    ELSE json_dump(xs[1]) \o <<Punct(",")>> \o dump_elements(Tail(xs))

dump_members(ms) ==
    IF ms = <<>> THEN <<>>
    ELSE LET m == <<StrTok(ms[1].key), Punct(":")>> \o json_dump(ms[1].val)
         IN  IF Len(ms) = 1 THEN m
             ELSE m \o <<Punct(",")>> \o dump_members(Tail(ms))

\* dict.get(key, default) on a JSON object.
DictGet(d, key, default) ==
    IF \E i \in 1..Len(d.ms) : d.ms[i].key = key
    THEN d.ms[CHOOSE i \in 1..Len(d.ms) : d.ms[i].key = key].val
    ELSE default

\* Python truthiness of a JSON value.
Truthy(x) ==
    CASE x.t = "null" -> FALSE
      [] x.t = "bool" -> x.s = "true"
      [] x.t = "num" -> x.s # "0"
      [] x.t = "str" -> x.s # ""
      [] x.t = "list" -> x.xs # <<>>
      [] x.t = "dict" -> x.ms # <<>>

(* ------------------- scrape_reddit.py: normalization ----------------- *)

\* Faulty variant of Caught: a handler that catches every exception.
CaughtAny(e) == TRUE

\* Faulty variant of Caught: a handler for another exception (KeyError).
CaughtOther(e) == e = "KeyError"

\* The except clause of the try block: only json.JSONDecodeError is caught.
Caught(e) == e = "JSONDecodeError"

\* Lines 106-109: posts = data if it is a list, else data.get("posts", []).
\* data.get exists only on a dict: any other value raises AttributeError.
Normalize(data) ==
    IF data.t = "list" THEN [exc |-> "", posts |-> data]
    ELSE IF data.t = "dict"
         THEN [exc |-> "", posts |-> DictGet(data, "posts", JList(<<>>))]
    ELSE [exc |-> "AttributeError", posts |-> JNull]

\* What `for post in posts` yields: the elements of a list, the keys of a
\* dict, the characters of a string.
Iterate(x) ==
    CASE x.t = "list" -> x.xs
      [] x.t = "dict" -> [i \in 1..Len(x.ms) |-> JStr(x.ms[i].key)]
      [] x.t = "str" -> IF x.s = "" THEN <<>> ELSE <<JStr(x.s)>>
      [] OTHER -> <<>>

\* Lines 114-122 for one post: post.get needs a dict, and a truthy
\* content_preview is sliced with [:100], which needs a string or a list.
PostError(post) ==
    IF post.t # "dict" THEN "AttributeError"
    ELSE LET preview == DictGet(post, "content_preview", JNull)
         IN  IF Truthy(preview) /\ preview.t \notin {"str", "list"}
             THEN "TypeError"
             ELSE ""

\* Lines 111-122: len(posts) needs a sized value; the posts are then printed
\* in order up to the first one that raises.
PrintPosts(x) ==
    IF x.t \notin {"list", "dict", "str"} THEN [exc |-> "TypeError", shown |-> 0]
    ELSE LET items == Iterate(x)
             bad == {i \in 1..Len(items) : PostError(items[i]) # ""}
         IN  IF bad = {} THEN [exc |-> "", shown |-> Len(items)]
             ELSE LET i == CHOOSE j \in bad : \A m \in bad : j <= m
                  IN  [exc |-> PostError(items[i]), shown |-> i - 1]

\* Faulty variant of PostsFileContent: the bare records, without the mapping.
PostsFileContentBare(x) == json_dump(x)

\* Line 126: the text json.dump({"posts": posts}, f, indent=2) writes.
PostsFileContent(x) == json_dump(JDict(<<Member("posts", x)>>))

(* ------------------------------ inputs ------------------------------- *)

LabelChars == <<"a", "b", "c", "d", "e", "q">>

RECURSIVE Host(_)
\* The host name with n labels: a, a.b, a.b.c, ...
Host(n) == IF n = 1 THEN <<LabelChars[1]>> ELSE Host(n - 1) \o <<".", LabelChars[n]>>

SchemePrefix == <<"h", ":", "/", "/">>

\* The URLs given on the command line: a bare host, a host with a dotted
\* path, a host with a port, and a URL without a scheme.
Urls ==
    UNION {{SchemePrefix \o Host(n),
            SchemePrefix \o Host(n) \o <<"/", "p", ".", "q">>,
            SchemePrefix \o Host(n) \o <<":", "8", "/", "p">>,
            Host(n) \o <<"/", "p">>} : n \in 1..MaxLabels}

ScriptName == <<"s">>
OutMd == <<"o", ".", "m", "d">>

\* sys.argv: the script name, then the arguments given.
Argvs ==
    {<<ScriptName>>}
    \cup {<<ScriptName, u>> : u \in Urls}
    \cup {<<ScriptName, u, o>> : u \in Urls, o \in {<<>>, OutMd}}

Markdowns == {None, <<>>, <<"#", " ", "T">>}

\* "reddit_posts.json"
RedditFile ==
    <<"r", "e", "d", "d", "i", "t", "_", "p", "o", "s", "t", "s", ".", "j", "s", "o", "n">>

\* What a JSON array from the LLM may hold: posts, and things that are none.
Items ==
    {JDict(<<Member("title", JStr("A")), Member("author", JStr("B"))>>),
     JDict(<<Member("title", JStr("C"))>>),
     JDict(<<Member("title", JStr("A")), Member("content_preview", JStr("text"))>>),
     JDict(<<Member("title", JStr("A")), Member("content_preview", JNum("7"))>>),
     JStr("x")}

RECURSIVE SeqsUpTo(_, _)
\* All sequences over S of length at most n.
SeqsUpTo(S, n) ==
    IF n = 0 THEN {<<>>}
    ELSE LET shorter == SeqsUpTo(S, n - 1)
         IN  shorter \cup {Append(q, x) : q \in shorter, x \in S}

Lists == {JList(q) : q \in SeqsUpTo(Items, MaxPosts)}

Scalars == {JNull, JBool("true"), JBool("false"), JNum("7"), JNum("0"), JStr("x"), JStr("")}

\* The JSON values the LLM may answer with.
JsonValues ==
    Lists
    \cup Scalars
    \cup {JDict(<<Member("posts", x)>>) : x \in Lists \cup Scalars \cup {JDict(<<>>)}}
    \cup {JDict(<<Member("count", JNum("7")), Member("posts", x)>>) : x \in Lists}
    \cup {JDict(<<Member("data", x)>>) : x \in Lists}
    \cup {JDict(<<>>)}

\* result.extracted_content: nothing (None or ""), the text of a JSON value,
\* that text cut short or followed by more, or no JSON at all.
Contents ==
    {<<>>, <<BadTok>>}
    \cup {json_dump(x) : x \in JsonValues}
    \cup {SubSeq(json_dump(x), 1, Len(json_dump(x)) - 1) : x \in JsonValues}
    \cup {json_dump(x) \o <<BadTok>> : x \in JsonValues}

Keys == {None, <<>>, <<"k">>}

OldMarkdown == <<"o", "l", "d">>
OldPosts == json_dump(JDict(<<Member("posts", JList(<<JStr("old")>>))>>))

(* ------------------------------- state ------------------------------- *)

VARIABLES
    script,            \* which script the process runs
    pc,                \* where the run is
    argv,              \* scrape.py: sys.argv
    gemini_api_key,    \* scrape_reddit.py: os.getenv("GEMINI_API_KEY")
    url,               \* scrape_to_markdown's url
    output_file,       \* scrape_to_markdown's output_file
    result,            \* what crawler.arun returned
    markdown_content,  \* scrape_to_markdown's markdown_content
    posts,             \* scrape_reddit_internship's posts
    fs,                \* the files: a set of [name, content]
    fs0,               \* the files when the process started
    out,               \* what was printed, in order
    acquired,          \* times the crawler's __aenter__ completed
    released,          \* times the crawler's __aexit__ ran
    navigations,       \* calls of crawler.arun
    extractions,       \* times the extracted content was taken from the result
    writes,            \* calls of open(..., "w")
    run_states,        \* the runner states passed through, in order
    outcome,           \* "running", "return", "raise", "exit"
    exc,               \* the exception raised, "" when none
    retval,            \* what the coroutine returned
    exitcode           \* the exit code of the process, -1 while it runs

vars ==
    <<script, pc, argv, gemini_api_key, url, output_file, result, markdown_content,
      posts, fs, fs0, out, acquired, released, navigations, extractions, writes,
      run_states, outcome, exc, retval, exitcode>>

NoResult ==
    [success |-> FALSE, markdown |-> None, extracted_content |-> <<>>,
     error_message |-> ""]

Msg(k, v) == [k |-> k, v |-> v]

\* posts before it is assigned.
Unset == [t |-> "unset", s |-> "", xs |-> <<>>, ms |-> <<>>]

\* open(name, "w") followed by one write of content.
WriteFile(files, name, content) ==
    {f \in files : f.name # name} \cup {[name |-> name, content |-> content]}

\* The proper prefixes of content: what a write that fails leaves behind.
Partial(content) == {SubSeq(content, 1, n) : n \in 0..(Len(content) - 1)}

InitCommon ==
    /\ pc = "start"
    /\ url = None
    /\ output_file = None
    /\ result = NoResult
    /\ markdown_content = None
    /\ posts = Unset
    /\ fs0 = fs
    /\ out = <<>>
    /\ acquired = 0
    /\ released = 0
    /\ navigations = 0
    /\ extractions = 0
    /\ writes = 0
    /\ run_states = <<"Idle">>
    /\ outcome = "running"
    /\ exc = ""
    /\ retval = None
    /\ exitcode = -1

InitScrape ==
    /\ script = "scrape"
    /\ argv \in Argvs
    /\ gemini_api_key = None
    /\ fs \in {{}, {[name |-> OutMd, content |-> OldMarkdown]}}
    /\ InitCommon

InitReddit ==
    /\ script = "scrape_reddit"
    /\ argv = <<ScriptName>>
    /\ gemini_api_key \in Keys
    /\ fs \in {{}, {[name |-> RedditFile, content |-> OldPosts]}}
    /\ InitCommon

Init == InitScrape \/ InitReddit

(* ------------------------ leaving the coroutine ---------------------- *)

\* The runner state a finished run ends in.
Final(kind) == IF kind = "return" THEN "Done" ELSE "Failed"

\* An exception before `async with` is entered: straight to the caller.
RaiseOutside(e) ==
    /\ pc' = "returned"
    /\ outcome' = "raise"
    /\ exc' = e
    /\ run_states' = Append(run_states, "Failed")

\* Faulty variant of ExitBody: an exception skips the crawler's __aexit__.
ExitBodyLeak(kind, e, rv) ==
    /\ pc' = IF kind = "raise" THEN "returned" ELSE "aexit"
    /\ outcome' = kind
    /\ exc' = e
    /\ retval' = rv

\* Leaving the body of `async with`, by return or by an exception: the
\* crawler's __aexit__ runs next, whichever it is.
ExitBody(kind, e, rv) ==
    /\ pc' = "aexit"
    /\ outcome' = kind
    /\ exc' = e
    /\ retval' = rv

(* ------------------------- scrape.py: main --------------------------- *)

\* Lines 50-54: no URL on the command line: usage, sys.exit(1).
MainUsage ==
    /\ script = "scrape" /\ pc = "start"
    /\ Len(argv) < 2
    /\ out' = out \o <<Msg("Usage", "python scrape.py <url> [output_file]")>>
    /\ pc' = "exited"
    /\ outcome' = "exit"
    /\ exitcode' = 1
    /\ UNCHANGED <<script, argv, gemini_api_key, url, output_file, result,
                   markdown_content, posts, fs, fs0, acquired, released, navigations,
                   extractions, writes, run_states, exc, retval>>

\* Lines 56-59: url and output_file from sys.argv, then the coroutine.
MainRun ==
    /\ script = "scrape" /\ pc = "start"
    /\ Len(argv) >= 2
    /\ url' = argv[2]
    /\ output_file' = IF Len(argv) > 2 THEN argv[3] ELSE None
    /\ pc' = "enter"
    /\ UNCHANGED <<script, argv, gemini_api_key, result, markdown_content, posts, fs,
                   fs0, out, acquired, released, navigations, extractions, writes,
                   run_states, outcome, exc, retval, exitcode>>

(* ------------- scrape_reddit.py: the credential check ---------------- *)

\* Lines 28-30: no key, or an empty one: ValueError, before anything else.
CredentialMissing ==
    /\ script = "scrape_reddit" /\ pc = "start"
    /\ Falsy(gemini_api_key)
    /\ RaiseOutside("ValueError")
    /\ UNCHANGED <<script, argv, gemini_api_key, url, output_file, result,
                   markdown_content, posts, fs, fs0, out, acquired, released,
                   navigations, extractions, writes, retval, exitcode>>

\* Lines 28-87: a key is there; the configuration objects are built.
CredentialFound ==
    /\ script = "scrape_reddit" /\ pc = "start"
    /\ ~Falsy(gemini_api_key)
    /\ pc' = "enter"
    /\ UNCHANGED <<script, argv, gemini_api_key, url, output_file, result,
                   markdown_content, posts, fs, fs0, out, acquired, released,
                   navigations, extractions, writes, run_states, outcome, exc, retval,
                   exitcode>>

(* ------------------ async with AsyncWebCrawler(...) ------------------ *)

\* The crawler's __aenter__ completes: the browser is up, the body starts
\* (scrape.py lines 23-24, scrape_reddit.py lines 89-90).
AcquireSession ==
    /\ pc = "enter"
    /\ acquired' = acquired + 1
    /\ run_states' = Append(run_states, "SessionAcquired")
    /\ out' = out \o <<IF script = "scrape" THEN Msg("Scraping", url)
                       ELSE Msg("Crawling", "r/internships")>>
    /\ pc' = "body"
    /\ UNCHANGED <<script, argv, gemini_api_key, url, output_file, result,
                   markdown_content, posts, fs, fs0, released, navigations,
                   extractions, writes, outcome, exc, retval, exitcode>>

\* The crawler's __aenter__ raises: the browser could not start.
AcquireRaises ==
    /\ pc = "enter"
    /\ RaiseOutside("BrowserLaunchError")
    /\ UNCHANGED <<script, argv, gemini_api_key, url, output_file, result,
                   markdown_content, posts, fs, fs0, out, acquired, released,
                   navigations, extractions, writes, retval, exitcode>>

\* What crawler.arun may return to each script.
Results ==
    IF script = "scrape"
    THEN {[success |-> TRUE, markdown |-> m, extracted_content |-> <<>>,
           error_message |-> ""] : m \in Markdowns}
         \cup {[success |-> FALSE, markdown |-> None, extracted_content |-> <<>>,
                error_message |-> "timeout"]}
    ELSE {[success |-> TRUE, markdown |-> m, extracted_content |-> c,
           error_message |-> ""] : m \in Markdowns, c \in Contents}
         \cup {[success |-> FALSE, markdown |-> None, extracted_content |-> <<>>,
                error_message |-> "timeout"]}

\* result = await crawler.arun(...) returns (scrape.py line 26,
\* scrape_reddit.py lines 92-95); success = True means the page was loaded.
Navigate ==
    /\ pc = "body"
    /\ navigations' = navigations + 1
    /\ \E r \in Results :
          /\ result' = r
          /\ run_states' = IF r.success THEN Append(run_states, "Navigated")
                           ELSE run_states
    /\ pc' = "result"
    /\ UNCHANGED <<script, argv, gemini_api_key, url, output_file, markdown_content,
                   posts, fs, fs0, out, acquired, released, extractions, writes,
                   outcome, exc, retval, exitcode>>

\* Faulty variant of NavigateRaises: the call is made again.
NavigateRetries ==
    /\ pc = "body"
    /\ navigations < 2
    /\ navigations' = navigations + 1
    /\ UNCHANGED <<script, pc, argv, gemini_api_key, url, output_file, result,
                   markdown_content, posts, fs, fs0, out, acquired, released,
                   extractions, writes, run_states, outcome, exc, retval, exitcode>>

\* await crawler.arun(...) raises.
NavigateRaises ==
    /\ pc = "body"
    /\ navigations' = navigations + 1
    /\ ExitBody("raise", "NavigationError", None)
    /\ UNCHANGED <<script, argv, gemini_api_key, url, output_file, result,
                   markdown_content, posts, fs, fs0, out, acquired, released,
                   extractions, writes, run_states, exitcode>>

\* The crawler's __aexit__ runs, and control goes back to the caller.
Release ==
    /\ pc = "aexit"
    /\ released' = released + 1
    /\ run_states' = Append(run_states, Final(outcome))
    /\ pc' = "returned"
    /\ UNCHANGED <<script, argv, gemini_api_key, url, output_file, result,
                   markdown_content, posts, fs, fs0, out, acquired, navigations,
                   extractions, writes, outcome, exc, retval, exitcode>>

\* asyncio.run returns or passes the exception on: the process ends, with
\* exit code 0, or 1 for an uncaught exception.
ProcessExit ==
    /\ pc = "returned"
    /\ pc' = "exited"
    /\ exitcode' = IF outcome = "return" THEN 0 ELSE 1
    /\ UNCHANGED <<script, argv, gemini_api_key, url, output_file, result,
                   markdown_content, posts, fs, fs0, out, acquired, released,
                   navigations, extractions, writes, run_states, outcome, exc, retval>>

(* ------------------ scrape.py: scrape_to_markdown -------------------- *)

\* Lines 28-34: markdown_content = result.markdown or "", and the name of
\* the output file: the one given, or the one derived from the URL.
ScrapeSucceeded ==
    /\ script = "scrape" /\ pc = "result"
    /\ result.success
    /\ markdown_content' = IF Falsy(result.markdown) THEN <<>> ELSE result.markdown
    /\ output_file' = IF Falsy(output_file) THEN DefaultFilename(url) ELSE output_file
    /\ extractions' = extractions + 1
    /\ run_states' = Append(run_states, "Extracted")
    /\ pc' = "write"
    /\ UNCHANGED <<script, argv, gemini_api_key, url, result, posts, fs, fs0, out,
                   acquired, released, navigations, writes, outcome, exc, retval,
                   exitcode>>

\* Faulty variant of ScrapeFailed: the failure is raised, not printed.
ScrapeFailedRaises ==
    /\ script = "scrape" /\ pc = "result"
    /\ ~result.success
    /\ ExitBody("raise", "RuntimeError", None)
    /\ UNCHANGED <<script, argv, gemini_api_key, url, output_file, result,
                   markdown_content, posts, fs, fs0, out, acquired, released,
                   navigations, extractions, writes, run_states, exitcode>>

\* Lines 44-46: the crawl failed: the error is printed, None is returned.
ScrapeFailed ==
    /\ script = "scrape" /\ pc = "result"
    /\ ~result.success
    /\ out' = out \o <<Msg("Failed", result.error_message)>>
    /\ ExitBody("return", "", None)
    /\ UNCHANGED <<script, argv, gemini_api_key, url, output_file, result,
                   markdown_content, posts, fs, fs0, acquired, released, navigations,
                   extractions, writes, run_states, exitcode>>

\* Lines 37-43: the file is written, the path and the length are printed,
\* the markdown is returned.
SaveMarkdown ==
    /\ script = "scrape" /\ pc = "write"
    /\ writes' = writes + 1
    /\ fs' = WriteFile(fs, output_file, markdown_content)
    /\ run_states' = Append(run_states, "Persisted")
    /\ out' = out \o <<Msg("Success! Saved to", output_file),
                       Msg("Content length", Len(markdown_content))>>
    /\ ExitBody("return", "", markdown_content)
    /\ UNCHANGED <<script, argv, gemini_api_key, url, output_file, result,
                   markdown_content, posts, fs0, acquired, released, navigations,
                   extractions, exitcode>>

\* Lines 37-38: open raises, leaving the files as they are, or the write
\* raises, leaving a file cut short; OSError goes up.
SaveMarkdownFails ==
    /\ script = "scrape" /\ pc = "write"
    /\ writes' = writes + 1
    /\ \/ fs' = fs
       \/ \E part \in Partial(markdown_content) :
             fs' = WriteFile(fs, output_file, part)
    /\ ExitBody("raise", "OSError", None)
    /\ UNCHANGED <<script, argv, gemini_api_key, url, output_file, result,
                   markdown_content, posts, fs0, out, acquired, released, navigations,
                   extractions, run_states, exitcode>>

(* ----------- scrape_reddit.py: scrape_reddit_internship -------------- *)

\* Faulty variant of CrawlFailed: the file is written all the same.
CrawlFailedSaves ==
    /\ script = "scrape_reddit" /\ pc = "result"
    /\ ~result.success
    /\ out' = out \o <<Msg("Crawl failed", result.error_message)>>
    /\ pc' = "write"
    /\ posts' = JList(<<>>)
    /\ UNCHANGED <<script, argv, gemini_api_key, url, output_file, result,
                   markdown_content, fs, fs0, acquired, released, navigations,
                   extractions, writes, run_states, outcome, exc, retval, exitcode>>

\* Lines 135-136: the crawl failed: the error is printed.
CrawlFailed ==
    /\ script = "scrape_reddit" /\ pc = "result"
    /\ ~result.success
    /\ out' = out \o <<Msg("Crawl failed", result.error_message)>>
    /\ ExitBody("return", "", None)
    /\ UNCHANGED <<script, argv, gemini_api_key, url, output_file, result,
                   markdown_content, posts, fs, fs0, acquired, released, navigations,
                   extractions, writes, run_states, exitcode>>

\* `if result.extracted_content` fails: the content is None or "", both of
\* which are the empty sequence of tokens.
NoText(c) == c = <<>>

\* The messages of lines 98-99.
CrawlOk == <<Msg("Crawl successful!", ""), Msg("Status code", "")>>

\* Lines 132-134: nothing was extracted: the start of the markdown is printed.
NoContent ==
    /\ script = "scrape_reddit" /\ pc = "result"
    /\ result.success
    /\ NoText(result.extracted_content)
    /\ out' = out \o CrawlOk
                  \o <<Msg("No content extracted by LLM", ""),
                       Msg("Raw markdown", IF Falsy(result.markdown) THEN "No markdown"
                                           ELSE "markdown")>>
    /\ ExitBody("return", "", None)
    /\ UNCHANGED <<script, argv, gemini_api_key, url, output_file, result,
                   markdown_content, posts, fs, fs0, acquired, released, navigations,
                   extractions, writes, run_states, exitcode>>

\* An exception e inside the try block of lines 102-131, after `printed`:
\* the handler prints and the coroutine returns when e is caught, and e goes
\* up otherwise.
RaiseInTry(e, printed) ==
    IF Caught(e)
    THEN /\ out' = printed \o <<Msg("Error parsing extracted content", e),
                                Msg("Raw content", result.extracted_content)>>
         /\ ExitBody("return", "", None)
    ELSE /\ out' = printed
         /\ ExitBody("raise", e, None)

\* Line 103 raises: the extracted content is no JSON.
ExtractParseError ==
    /\ script = "scrape_reddit" /\ pc = "result"
    /\ result.success
    /\ ~NoText(result.extracted_content)
    /\ ~json_loads(result.extracted_content).ok
    /\ extractions' = extractions + 1
    /\ RaiseInTry("JSONDecodeError", out \o CrawlOk)
    /\ UNCHANGED <<script, argv, gemini_api_key, url, output_file, result,
                   markdown_content, posts, fs, fs0, acquired, released, navigations,
                   writes, run_states, exitcode>>

\* Lines 103-109: the content is JSON, and normalizing it raises.
ExtractNormalizeRaises ==
    /\ script = "scrape_reddit" /\ pc = "result"
    /\ result.success
    /\ ~NoText(result.extracted_content)
    /\ json_loads(result.extracted_content).ok
    /\ LET n == Normalize(json_loads(result.extracted_content).val)
       IN  /\ n.exc # ""
           /\ RaiseInTry(n.exc, out \o CrawlOk)
    /\ extractions' = extractions + 1
    /\ UNCHANGED <<script, argv, gemini_api_key, url, output_file, result,
                   markdown_content, posts, fs, fs0, acquired, released, navigations,
                   writes, run_states, exitcode>>

\* What lines 111-122 print for the first n posts.
Shown(x, n) ==
    <<Msg("Extracted posts", Len(Iterate(x)))>>
    \o [i \in 1..n |-> Msg("Post", i)]

\* Lines 103-122: the content is JSON and is normalized, and printing the
\* posts raises.
ExtractPrintRaises ==
    /\ script = "scrape_reddit" /\ pc = "result"
    /\ result.success
    /\ ~NoText(result.extracted_content)
    /\ json_loads(result.extracted_content).ok
    /\ LET n == Normalize(json_loads(result.extracted_content).val)
           p == PrintPosts(n.posts)
       IN  /\ n.exc = ""
           /\ p.exc # ""
           /\ posts' = n.posts
           /\ RaiseInTry(p.exc,
                         out \o CrawlOk
                             \o (IF n.posts.t \in {"list", "dict", "str"}
                                 THEN Shown(n.posts, p.shown) ELSE <<>>))
    /\ extractions' = extractions + 1
    /\ run_states' = Append(run_states, "Extracted")
    /\ UNCHANGED <<script, argv, gemini_api_key, url, output_file, result,
                   markdown_content, fs, fs0, acquired, released, navigations, writes,
                   exitcode>>

\* Lines 103-122: the content is JSON, is normalized, and the posts are
\* printed.
ExtractPosts ==
    /\ script = "scrape_reddit" /\ pc = "result"
    /\ result.success
    /\ ~NoText(result.extracted_content)
    /\ json_loads(result.extracted_content).ok
    /\ LET n == Normalize(json_loads(result.extracted_content).val)
           p == PrintPosts(n.posts)
       IN  /\ n.exc = ""
           /\ p.exc = ""
           /\ posts' = n.posts
           /\ out' = out \o CrawlOk \o Shown(n.posts, p.shown)
    /\ extractions' = extractions + 1
    /\ run_states' = Append(run_states, "Extracted")
    /\ pc' = "write"
    /\ UNCHANGED <<script, argv, gemini_api_key, url, output_file, result,
                   markdown_content, fs, fs0, acquired, released, navigations, writes,
                   outcome, exc, retval, exitcode>>

\* Lines 125-127: reddit_posts.json is written, and that is printed.
SavePosts ==
    /\ script = "scrape_reddit" /\ pc = "write"
    /\ writes' = writes + 1
    /\ fs' = WriteFile(fs, RedditFile, PostsFileContent(posts))
    /\ run_states' = Append(run_states, "Persisted")
    /\ out' = out \o <<Msg("Data saved to", RedditFile)>>
    /\ ExitBody("return", "", None)
    /\ UNCHANGED <<script, argv, gemini_api_key, url, output_file, result,
                   markdown_content, posts, fs0, acquired, released, navigations,
                   extractions, exitcode>>

\* Lines 125-126: open raises, leaving the files as they are, or json.dump
\* raises, leaving a file cut short; OSError meets the except clause.
SavePostsFails ==
    /\ script = "scrape_reddit" /\ pc = "write"
    /\ writes' = writes + 1
    /\ \/ fs' = fs
       \/ \E part \in Partial(PostsFileContent(posts)) :
             fs' = WriteFile(fs, RedditFile, part)
    /\ RaiseInTry("OSError", out)
    /\ UNCHANGED <<script, argv, gemini_api_key, url, output_file, result,
                   markdown_content, posts, fs0, acquired, released, navigations,
                   extractions, run_states, exitcode>>

(* --------------------------- specification --------------------------- *)

Next ==
    \/ MainUsage
    \/ MainRun
    \/ CredentialMissing
    \/ CredentialFound
    \/ AcquireSession
    \/ AcquireRaises
    \/ Navigate
    \/ NavigateRaises
    \/ ScrapeSucceeded
    \/ ScrapeFailed
    \/ SaveMarkdown
    \/ SaveMarkdownFails
    \/ CrawlFailed
    \/ NoContent
    \/ ExtractParseError
    \/ ExtractNormalizeRaises
    \/ ExtractPrintRaises
    \/ ExtractPosts
    \/ SavePosts
    \/ SavePostsFails
    \/ Release
    \/ ProcessExit

Spec == Init /\ [][Next]_vars

(* ------------------------------ properties --------------------------- *)

\* Control is back with the caller of the coroutine.
Returned == pc \in {"returned", "exited"}

Printed(k) == \E i \in 1..Len(out) : out[i].k = k

\* crawler.arun returned a result with success = False.
CrawlReportedFailure == result # NoResult /\ ~result.success

\* The crawl succeeded and the LLM's text was there but is no JSON.
InvalidJson ==
    /\ script = "scrape_reddit"
    /\ result.success
    /\ result.extracted_content # <<>>
    /\ ~json_loads(result.extracted_content).ok

\* The crawl succeeded and the LLM's text is JSON.
ValidJson ==
    /\ script = "scrape_reddit"
    /\ result.success
    /\ result.extracted_content # <<>>
    /\ json_loads(result.extracted_content).ok

\* The records the normalization rule of the specification gives for a JSON
\* value: the array itself, the value under posts of a mapping, else none.
RecordsOf(data) ==
    IF data.t = "list" THEN data
    ELSE IF data.t = "dict" /\ \E i \in 1..Len(data.ms) : data.ms[i].key = "posts"
         THEN data.ms[CHOOSE i \in 1..Len(data.ms) : data.ms[i].key = "posts"].val
    ELSE JList(<<>>)

\* C1: in every run in which the browser session was acquired, the session
\* is released exactly once before control returns to the caller, whatever
\* stage the run failed in; it is never released more than once, nor without
\* having been acquired.
C1_ReleasedExactlyOnce ==
    /\ released <= acquired
    /\ released <= 1
    /\ (Returned /\ acquired >= 1) => released = 1

\* A run of scrape.py whose write raised, back with the caller, released.
C1_Witness ==
    /\ script = "scrape" /\ pc = "returned"
    /\ exc = "OSError" /\ acquired = 1 /\ released = 1

\* C2: for every valid JSON value the LLM returns, the extracted records
\* are the value itself for an array, the value under posts for a mapping
\* and the empty sequence for any other shape, and no error is raised by the
\* normalization.
C2_NormalizationTotal ==
    (ValidJson /\ pc # "result") =>
        posts = RecordsOf(json_loads(result.extracted_content).val)

\* C3 as stated: after invalid JSON the run still reaches Persisted and Done
\* and an output file is produced.
C3_InvalidJsonStillPersists ==
    (InvalidJson /\ Returned) =>
        /\ outcome = "return"
        /\ \E i \in 1..Len(run_states) : run_states[i] = "Persisted"
        /\ \E f \in fs : f.name = RedditFile /\ f \notin fs0

\* C3 amended: after invalid JSON the run does not fail or crash: it ends
\* normally (Done) having printed the parse error and the raw content, with
\* no extracted records; but it never reaches Persisted and writes no file.
C3_InvalidJsonEndsNormally ==
    (InvalidJson /\ Returned) =>
        /\ outcome = "return" /\ exc = ""
        /\ run_states = <<"Idle", "SessionAcquired", "Navigated", "Done">>
        /\ Printed("Error parsing extracted content") /\ Printed("Raw content")
        /\ posts = Unset
        /\ writes = 0 /\ fs = fs0
        /\ pc = "exited" => exitcode = 0

\* The process has ended after a crawl whose text was cut-short JSON.
C3_Witness ==
    /\ InvalidJson /\ pc = "exited"
    /\ Len(result.extracted_content) > 1

\* C4: when GEMINI_API_KEY is absent or empty the run fails with the
\* credential error before anything else: no session is acquired, no
\* navigation or LLM call is made, no file is written.
C4_CredentialCheckedFirst ==
    (script = "scrape_reddit" /\ gemini_api_key \in {None, <<>>} /\ pc # "start") =>
        /\ outcome = "raise" /\ exc = "ValueError"
        /\ acquired = 0 /\ released = 0 /\ navigations = 0 /\ extractions = 0
        /\ writes = 0 /\ fs = fs0
        /\ result = NoResult

\* The process has ended on an empty key.
C4_Witness ==
    /\ script = "scrape_reddit" /\ gemini_api_key = <<>>
    /\ pc = "exited" /\ exc = "ValueError" /\ exitcode = 1

\* The runner states of a complete run, in order.
AllStates == <<"Idle", "SessionAcquired", "Navigated", "Extracted", "Persisted", "Done">>

\* The first n states of the pipeline.
Stages(n) == SubSeq(AllStates, 1, n)

Passed(st) == \E i \in 1..Len(run_states) : run_states[i] = st

\* A pipeline run (not the usage exit of scrape.py) is back with its caller.
RunEnded == Returned /\ outcome \in {"return", "raise"}

\* C5 as stated: a run passes through all six states in order, or else it
\* ends in Failed; no run ends normally without Persisted.
C5_DoneOnlyAfterPersisted ==
    RunEnded =>
        \/ run_states = AllStates
        \/ \E n \in 1..5 : run_states = Append(Stages(n), "Failed")

\* C5 amended: the states are passed through strictly in the order Idle,
\* SessionAcquired, Navigated, Extracted, Persisted with none skipped; a run
\* that stops early on an exception ends in Failed; a run that stops early
\* because the crawl reported failure, nothing was extracted or the extracted
\* text was no JSON ends normally (Done) without Persisted, and these are the
\* only runs that end normally without it; a run that reaches Persisted has
\* passed through all the states before it and ends in Done.
C5_StatesInOrder ==
    /\ ~RunEnded => \E n \in 1..5 : run_states = Stages(n)
    /\ RunEnded =>
          \E n \in 1..5 :
             /\ run_states = Append(Stages(n), Final(outcome))
             /\ outcome = "raise" <=> exc # ""
             /\ n = 5 => outcome = "return"
             /\ (outcome = "return" /\ n < 5) =>
                   \/ n = 2 /\ CrawlReportedFailure
                   \/ n = 3 /\ script = "scrape_reddit"
                            /\ (result.extracted_content = <<>> \/ InvalidJson)

\* A run of scrape.py has ended normally after a failed crawl, without
\* Extracted or Persisted.
C5_Witness ==
    /\ script = "scrape" /\ pc = "exited"
    /\ run_states = <<"Idle", "SessionAcquired", "Done">>

\* The URL's host, as the code takes it: the network location of the URL.
HostOf(u) == netloc(u)

\* name is text with every "." replaced by "_", followed by ".md".
IsUnderscoredMd(name, text) ==
    /\ Len(name) = Len(text) + 3
    /\ \A i \in 1..Len(text) : name[i] = IF text[i] = "." THEN "_" ELSE text[i]
    /\ SubSeq(name, Len(text) + 1, Len(text) + 3) = <<".", "m", "d">>

\* The file named name, and no other, was written, with the markdown.
OnlyWritten(name) ==
    /\ [name |-> name, content |-> markdown_content] \in fs
    /\ \A f \in fs : f.name # name => f \in fs0
    /\ \A f \in fs0 : f.name # name => f \in fs

C7_FailedScrapeEndsNormally ==
    (script = "scrape" /\ CrawlReportedFailure /\ Returned) =>
        /\ \E i \in 1..Len(out) : out[i] = Msg("Failed", result.error_message)
        /\ writes = 0 /\ fs = fs0
        /\ retval = None
        /\ released = 1
        /\ outcome = "return" /\ exc = ""
        /\ pc = "exited" => exitcode = 0

\* The process has ended after a failed crawl.
C7_Witness ==
    /\ script = "scrape" /\ CrawlReportedFailure
    /\ pc = "exited" /\ exitcode = 0 /\ Printed("Failed")

\* The write of the output file was attempted and did not complete.
WriteFailed == writes >= 1 /\ ~Passed("Persisted") /\ pc # "write"

\* C8: a failure of the write of the output file is not swallowed in either
\* script: the OSError goes up to the caller, the run does not end as if it
\* had succeeded, and no saved message is printed.
C8_WriteErrorSurfaces ==
    WriteFailed =>
        /\ outcome = "raise" /\ exc = "OSError"
        /\ ~Printed("Success! Saved to") /\ ~Printed("Data saved to")
        /\ ~Printed("Error parsing extracted content")
        /\ Returned => Passed("Failed")
        /\ pc = "exited" => exitcode = 1

\* The write of reddit_posts.json failed inside the try block, and the
\* process has ended.
C8_Witness ==
    /\ script = "scrape_reddit" /\ WriteFailed
    /\ pc = "exited" /\ exc = "OSError"

\* C9: no stage is ever done twice, whatever its outcome: at most one
\* session acquisition, one call of arun, one extraction, one file write.
C9_NoRetry ==
    /\ acquired <= 1
    /\ navigations <= 1
    /\ extractions <= 1
    /\ writes <= 1

\* The navigation raised, and the process has ended after one call of arun.
C9_Witness ==
    /\ pc = "exited" /\ exc = "NavigationError"
    /\ acquired = 1 /\ navigations = 1

\* C10: reddit_posts.json is touched only when the crawl succeeded and the
\* extracted content is non-empty JSON; on every other path the files are as
\* they were; and once the write has completed the file holds exactly the
\* mapping with the one key posts and the normalized records, in their
\* order, and nothing else was written.
C10_PostsFileOnlyOnSuccess ==
    script = "scrape_reddit" =>
        /\ (fs # fs0 \/ writes > 0) => ValidJson
        /\ \A f \in fs : f \notin fs0 => f.name = RedditFile
        /\ Passed("Persisted") =>
              /\ \A f \in fs : f.name # RedditFile => f \in fs0
              /\ \A f \in fs0 : f.name # RedditFile => f \in fs
              /\ \E f \in fs :
                    /\ f.name = RedditFile
                    /\ \A g \in fs : g.name = RedditFile => g = f
                    /\ json_loads(f.content).ok
                    /\ json_loads(f.content).val =
                          JDict(<<Member("posts",
                                         RecordsOf(json_loads(result.extracted_content).val))>>)

\* reddit_posts.json was written with two different posts.
C10_Witness ==
    /\ script = "scrape_reddit" /\ Passed("Persisted")
    /\ posts.t = "list" /\ Len(posts.xs) = 2 /\ posts.xs[1] # posts.xs[2]
    /\ result.extracted_content = json_dump(JDict(<<Member("posts", posts)>>))

====
